---- MODULE Spec2Model ----
(***************************************************************************)
(* Model of the llm-video-batch pipeline scripts.                          *)
(*                                                                         *)
(* SpecRetry : the three retry loops (BaseImageUploader.upload_image,      *)
(*             OpenRouterClient.generate_content / analyze_image,          *)
(*             remove_watermark_with_gemini), one call at a time.          *)
(* SpecBatch : BatchImageUploader.upload_batch over img/ready and its CSV. *)
(* SpecDbManager : DatabaseManager over the SQLite tables images, prompts  *)
(*             and videos.                                                 *)
(* SpecScripts : the migration, conversion, processing and repair scripts  *)
(*             that write those tables.                                    *)
(* SpecChecker : check_json_images.py over out/prompt_json.                *)
(* SpecDuomi : generate_video_duomi.py, one run of main at a time.         *)
(* SpecProcessor : ImageProcessor.process_single_image and its CSV log.    *)
(* SpecVerifier : ImageSizeVerifier.verify_image_sizes.                    *)
(* SpecRename : rename_images_with_uuid.py over img/ready.                 *)
(* SpecUpdater : JSONUpdater.update_json_file and its backups.             *)
(* SpecTemp : TempImageProcessor.upload_and_process_image, whole calls.    *)
(***************************************************************************)
EXTENDS Integers, Sequences, FiniteSets, TLC

\* ------------------------------------------------------------------ bounds
MaxRetries == 3
MaxDelay == 2
MaxCsvRows == 4
MaxCount == 2
MaxImages == 2
MaxPrompts == 2
MaxVideos == 1

\* Python's None
None == "None"

VARIABLES
    pc,            \* position inside the routine that is running
    routine,       \* the routine that was called
    service,       \* which uploader class: "freeimagehost" or "imagekit"
    image_path,    \* upload_image argument: does the file exist, and its suffix
    api_source,    \* generate_content argument
    use_fallback,  \* OpenRouterClient.use_fallback
    gemini_client, \* OpenRouterClient.gemini_client is not None
    max_retries,
    retry_delay,
    attempt,       \* number of loop iterations completed
    last_error,
    calls,         \* provider calls made by the running call, in order, each with
                   \* whether it succeeded and the exception it raised
    sleeps,        \* arguments of time.sleep, in half seconds, in order
    result         \* the value returned to the caller

retryVars == <<pc, routine, service, image_path, api_source, use_fallback, gemini_client,
               max_retries, retry_delay, attempt, last_error, calls, sleeps, result>>

VARIABLES
    ready,         \* names of the files in img/ready, oldest modification time first
    output_csv,    \* rows of logs/image_uploads.csv after the header
    batch_pc,      \* "idle" or "uploading" (inside upload_batch's loop)
    image_files,   \* upload_batch's local list of files still to upload
    resume,        \* upload_batch argument
    move_uploaded  \* BatchImageUploader.move_uploaded

batchVars == <<ready, output_csv, batch_pc, image_files, resume, move_uploaded>>

VARIABLES
    images,        \* rows of table images; a row's id is its position
    prompts,       \* rows of table prompts
    videos,        \* rows of table videos
    db_result,     \* what the last DatabaseManager call gave its caller
    tp_pc,         \* position inside TempImageProcessor.upload_and_process_image
    tp_image_id,   \* the image row that call is processing
    tp_prompt_id   \* the prompt row that call has created

tpVars == <<tp_pc, tp_image_id, tp_prompt_id>>

dbVars == <<images, prompts, videos, db_result, tpVars>>

VARIABLES
    json_dir,         \* names of the files in out/prompt_json
    json_data,        \* what each JSON file holds
    failed_dir,       \* number of copies of each file name in out/failed_json
    cj_pc,            \* "idle" or "checking" (inside check_json_images' loop)
    json_files,       \* check_json_images' list of files still to process
    processed,        \* the files this run has processed, with what happened
    cj_counts         \* total_processed, download_success, download_failures

checkerVars == <<json_dir, json_data, failed_dir, cj_pc, json_files, processed, cj_counts>>

VARIABLES
    IMG_READY_DIR,     \* names of the files in img/ready
    IMG_GENERATED_DIR, \* names of the files in img/generated
    JSON_PROMPT_DIR,   \* what each file name in out/prompt_json holds
    dv_pc,             \* "idle" or "polling" (inside main's while True loop)
    dv_run             \* main's local variables and what the run did

duomiVars == <<IMG_READY_DIR, IMG_GENERATED_DIR, JSON_PROMPT_DIR, dv_pc, dv_run>>

VARIABLES
    csv_log_path,      \* rows of logs/image_uploading.csv after the header
    processed_images,  \* ImageProcessor.processed_images
    ps_result          \* the ProcessingResult process_single_image returned last

processorVars == <<csv_log_path, processed_images, ps_result>>

\* the state of the scripts that move and rewrite files
VARIABLES
    verifier_db,   \* table images of the database ImageSizeVerifier opens, by id
    verify_run     \* the last call of verify_image_sizes: its limit, the rows it checked, their downloads

verifierVars == <<verifier_db, verify_run>>

VARIABLES
    ready_dir,    \* img/ready as rename_images_with_uuid.py sees it: file name -> the file it holds, 0 for none
    rename_run    \* the last call of rename_images_in_ready: the files it found and its renamed_count

renameVars == <<ready_dir, rename_run>>

VARIABLES
    self_dry_run,  \* JSONUpdater.dry_run
    self_backup,   \* JSONUpdater.backup
    stats,         \* JSONUpdater.stats: files_updated, files_failed, files_skipped
    json_dirs,     \* the JSON files of out/prompt_json: file name -> content
    backup_files,  \* the backup copies create_backup has written: file name and content
    update_run     \* the last call of update_json_file: its file and what it returned

updaterVars == <<self_dry_run, self_backup, stats, json_dirs, backup_files, update_run>>

VARIABLES
    tp_result      \* what TempImageProcessor.upload_and_process_image returned last

tempVars == <<tp_result>>

VARIABLES
    poll_script,        \* the generation script whose main is polling
    poll_pc,            \* "idle", "polling", "sleeping" (time.sleep(10)) or "done" (after the loop)
    status_data,        \* the answer to the last status request
    poll_count,         \* status requests sent by this run, counted up to MaxPollCount
    generation_status   \* main's generation_status

pollVars == <<poll_script, poll_pc, status_data, poll_count, generation_status>>

fileVars ==
    <<checkerVars, duomiVars, processorVars, verifierVars, renameVars, updaterVars, tempVars,
      pollVars>>

vars == <<retryVars, batchVars, dbVars, fileVars>>

\* ------------------------------------------------------------ result types
NoResult == [kind |-> "none"]

UploadResult(success, url, error) ==
    [kind |-> "UploadResult", success |-> success, url |-> url, error |-> error]

GenerationResult(success, content, error, source) ==
    [kind |-> "GenerationResult", success |-> success, content |-> content,
     error |-> error, api_source |-> source]

BoolResult(b) == [kind |-> "bool", success |-> b]

\* outcome of a call that may raise
Return(v) == [raised |-> FALSE, value |-> v, exc |-> None]
Raise(e) == [raised |-> TRUE, value |-> NoResult, exc |-> e]

\* ------------------------------------------------- image_uploader.py
HostedUrl == "https://host/image.png"

Suffixes == {".png", ".JPG", ".txt", ".mp4"}

Lower(s) == IF s = ".JPG" THEN ".jpg" ELSE s

_is_valid_image(suffix) ==
    Lower(suffix) \in {".png", ".jpg", ".jpeg", ".gif", ".bmp", ".webp", ".svg", ".ico", ".tiff"}

FreeImageHostResponses ==
    {"ok", "ok_without_image", "api_error", "invalid_json", "timeout",
     "network_error", "timeout_file_removed"}

FreeImageHost_upload_single(response) ==
    CASE response = "ok" -> Return(UploadResult(TRUE, HostedUrl, None))
      [] response = "ok_without_image" -> Return(UploadResult(FALSE, None, "Unexpected error: 'image'"))
      [] response = "api_error" -> Return(UploadResult(FALSE, None, "Upload failed: message (Code: code)"))
      [] response = "invalid_json" -> Return(UploadResult(FALSE, None, "Invalid JSON response"))
      [] response = "timeout" -> Return(UploadResult(FALSE, None, "Upload timeout (30s)"))
      [] response = "network_error" -> Return(UploadResult(FALSE, None, "Network error"))
      [] response = "timeout_file_removed" -> Raise("FileNotFoundError")

ImageKitResponses ==
    {"200_with_url", "200_without_url", "202", "http_error", "invalid_json",
     "timeout", "network_error", "timeout_file_removed"}

ImageKit_upload_single(response) ==
    CASE response = "200_with_url" -> Return(UploadResult(TRUE, HostedUrl, None))
      [] response = "200_without_url" -> Return(UploadResult(TRUE, None, None))
      [] response = "202" ->
            Return(UploadResult(TRUE, "Processing queued", "File is being processed. Check back later."))
      [] response = "http_error" -> Return(UploadResult(FALSE, None, "Upload failed (status): message"))
      [] response = "invalid_json" -> Return(UploadResult(FALSE, None, "Invalid JSON response"))
      [] response = "timeout" -> Return(UploadResult(FALSE, None, "Upload timeout (60s)"))
      [] response = "network_error" -> Return(UploadResult(FALSE, None, "Network error"))
      [] response = "timeout_file_removed" -> Raise("FileNotFoundError")

Services == {"freeimagehost", "imagekit"}

Responses(svc) == IF svc = "freeimagehost" THEN FreeImageHostResponses ELSE ImageKitResponses

_upload_single(svc, response) ==
    IF svc = "freeimagehost" THEN FreeImageHost_upload_single(response)
    ELSE ImageKit_upload_single(response)

range_inclusive(i, n) == i <= n

\* `for attempt in range(self.max_retries)`
range_max_retries(i, n) == i < n

\* `if attempt < self.max_retries - 1` guarding time.sleep
sleep_before_retry(i, n) == i < n - 1

linear_wait(delay, i) == 2 * delay * (i + 1)

\* time.sleep(self.retry_delay), in half seconds
fixed_wait(delay, i) == 2 * delay

UploadFailedAfterRetries(err) ==
    UploadResult(FALSE, None, "Upload failed after max_retries attempts. Last error")

upload_image(svc, n, delay, file_exists, suffix) ==
    /\ UNCHANGED <<batchVars, dbVars, fileVars>>
    /\ pc = "idle"
    /\ routine' = "upload_image"
    /\ service' = svc
    /\ image_path' = [exists |-> file_exists, suffix |-> suffix]
    /\ max_retries' = n
    /\ retry_delay' = delay
    /\ attempt' = 0
    /\ last_error' = None
    /\ calls' = <<>>
    /\ sleeps' = <<>>
    /\ IF ~file_exists
       THEN /\ result' = UploadResult(FALSE, None, "Image file not found")
            /\ pc' = "returned"
       ELSE IF ~_is_valid_image(suffix)
       THEN /\ result' = UploadResult(FALSE, None, "Invalid image file type")
            /\ pc' = "returned"
       ELSE IF ~range_max_retries(0, n)
       THEN /\ result' = UploadFailedAfterRetries(None)
            /\ pc' = "returned"
       ELSE /\ result' = NoResult
            /\ pc' = "upload_loop"
    /\ UNCHANGED <<api_source, use_fallback, gemini_client>>

upload_image_attempt(response) ==
    /\ UNCHANGED <<batchVars, dbVars, fileVars>>
    /\ pc = "upload_loop"
    /\ response \in Responses(service)
    /\ LET r == _upload_single(service, response)
           ok == IF r.raised THEN FALSE ELSE r.value.success
           err == IF r.raised THEN r.exc ELSE r.value.error
       IN  /\ calls' = Append(calls, [api |-> service, ok |-> ok, exc |-> r.exc])
           /\ IF ok
              THEN /\ result' = r.value
                   /\ pc' = "returned"
                   /\ UNCHANGED <<attempt, last_error, sleeps>>
              ELSE /\ last_error' = err
                   /\ sleeps' = IF sleep_before_retry(attempt, max_retries)
                                THEN Append(sleeps, fixed_wait(retry_delay, attempt))
                                ELSE sleeps
                   /\ attempt' = attempt + 1
                   /\ IF range_max_retries(attempt + 1, max_retries)
                      THEN /\ pc' = "upload_loop"
                           /\ result' = NoResult
                      ELSE /\ pc' = "returned"
                           /\ result' = UploadFailedAfterRetries(err)
    /\ UNCHANGED <<routine, service, image_path, api_source, use_fallback, gemini_client,
                   max_retries, retry_delay>>

\* ------------------------------------------------- openrouter_base.py
OpenRouterResponses == {"content", "empty_content", "no_choices", "http_error_503", "request_error"}

_call_openrouter_api(response) ==
    CASE response = "content" -> Return("openrouter text")
      [] response = "empty_content" -> Return("")
      [] response = "no_choices" -> Return(None)
      [] response = "http_error_503" -> Raise("503 Server Error")
      [] response = "request_error" -> Raise("ConnectionError")

GeminiResponses == {"text", "no_text", "error_503", "error"}

_call_gemini_api(client, response) ==
    IF ~client THEN Raise("Gemini client not available for fallback")
    ELSE CASE response = "text" -> Return("gemini text")
           [] response = "no_text" -> Return(None)
           [] response = "error_503" -> Raise("503 UNAVAILABLE")
           [] response = "error" -> Raise("400 INVALID_ARGUMENT")

\* Python truthiness of an Optional[str]
Truthy(v) == v \notin {None, ""}

\* `"503" in str(e)`
Has503(e) == e \in {"503 UNAVAILABLE", "503 Server Error"}

FailedWithLastError(err) ==
    GenerationResult(FALSE, None, err, "openrouter")

FailedAfterRetries(err) ==
    GenerationResult(FALSE, None, "Failed after max_retries attempts. Last error", "openrouter")

fallback_always(fb, client) == TRUE

\* `if self.use_fallback and self.gemini_client` after the OpenRouter loop
fallback_enabled(fb, client) == fb /\ client

\* what follows the OpenRouter retry loop once it is exhausted
AfterOpenRouterLoop(fb, client, err) ==
    IF fallback_enabled(fb, client)
    THEN /\ pc' = "gemini_fallback"
         /\ result' = NoResult
    ELSE /\ pc' = "returned"
         /\ result' = FailedAfterRetries(err)

GenRoutines == {"generate_content", "analyze_image"}

\* analyze_image only forwards its arguments to generate_content
generate_content(via, src, n, delay, fb, client) ==
    /\ UNCHANGED <<batchVars, dbVars, fileVars>>
    /\ pc = "idle"
    /\ routine' = via
    /\ api_source' = src
    /\ max_retries' = n
    /\ retry_delay' = delay
    /\ use_fallback' = fb
    /\ gemini_client' = client
    /\ attempt' = 0
    /\ last_error' = None
    /\ calls' = <<>>
    /\ sleeps' = <<>>
    /\ IF src = "openrouter"
       THEN IF range_max_retries(0, n)
            THEN /\ pc' = "openrouter_loop"
                 /\ result' = NoResult
            ELSE AfterOpenRouterLoop(fb, client, None)
       ELSE IF ~client
            THEN /\ pc' = "returned"
                 /\ result' = GenerationResult(FALSE, None, "Gemini client not available", "gemini")
            ELSE /\ pc' = "gemini_call"
                 /\ result' = NoResult
    /\ UNCHANGED <<service, image_path>>

generate_content_attempt(response) ==
    /\ UNCHANGED <<batchVars, dbVars, fileVars>>
    /\ pc = "openrouter_loop"
    /\ LET r == _call_openrouter_api(response)
           ok == IF r.raised THEN FALSE ELSE Truthy(r.value)
           err == IF r.raised THEN r.exc ELSE last_error
       IN  /\ calls' = Append(calls, [api |-> "openrouter", ok |-> ok, exc |-> r.exc])
           /\ IF ok
              THEN /\ result' = GenerationResult(TRUE, r.value, None, "openrouter")
                   /\ pc' = "returned"
                   /\ UNCHANGED <<attempt, last_error, sleeps>>
              ELSE /\ last_error' = err
                   /\ sleeps' = IF sleep_before_retry(attempt, max_retries)
                                THEN Append(sleeps, fixed_wait(retry_delay, attempt))
                                ELSE sleeps
                   /\ attempt' = attempt + 1
                   /\ IF range_max_retries(attempt + 1, max_retries)
                      THEN /\ pc' = "openrouter_loop"
                           /\ result' = NoResult
                      ELSE AfterOpenRouterLoop(use_fallback, gemini_client, err)
    /\ UNCHANGED <<routine, service, image_path, api_source, use_fallback, gemini_client,
                   max_retries, retry_delay>>

generate_content_fallback(response) ==
    /\ UNCHANGED <<batchVars, dbVars, fileVars>>
    /\ pc = "gemini_fallback"
    /\ LET r == _call_gemini_api(gemini_client, response)
           ok == IF r.raised THEN FALSE ELSE Truthy(r.value)
       IN  /\ calls' = Append(calls, [api |-> "gemini_fallback", ok |-> ok, exc |-> r.exc])
           /\ result' = IF ok
                        THEN GenerationResult(TRUE, r.value, None, "gemini_fallback")
                        ELSE FailedAfterRetries(last_error)
    /\ pc' = "returned"
    /\ UNCHANGED <<routine, service, image_path, api_source, use_fallback, gemini_client,
                   max_retries, retry_delay, attempt, last_error, sleeps>>

\* the api_source == "gemini" branch, with its 503 switch to OpenRouter
generate_content_gemini(response) ==
    /\ UNCHANGED <<batchVars, dbVars, fileVars>>
    /\ pc = "gemini_call"
    /\ LET r == _call_gemini_api(gemini_client, response)
       IN  /\ calls' = Append(calls, [api |-> "gemini", ok |-> ~r.raised, exc |-> r.exc])
           /\ IF ~r.raised
              THEN /\ result' = GenerationResult(TRUE, r.value, None, "gemini")
                   /\ pc' = "returned"
              ELSE IF Has503(r.exc) /\ use_fallback
              THEN IF range_max_retries(0, max_retries)
                   THEN /\ pc' = "openrouter_loop"
                        /\ result' = NoResult
                   ELSE AfterOpenRouterLoop(use_fallback, gemini_client, None)
              ELSE /\ result' = GenerationResult(FALSE, None, r.exc, "gemini")
                   /\ pc' = "returned"
    /\ UNCHANGED <<routine, service, image_path, api_source, use_fallback, gemini_client,
                   max_retries, retry_delay, attempt, last_error, sleeps>>

\* ------------------------------------------------- remove_watermark.py
WatermarkResponses == {"image", "no_image", "error"}

\* random.uniform(0.5, 1.5), in halves
Jitters == {1, 2, 3}

RECURSIVE Pow2(_)
Pow2(k) == IF k = 0 THEN 1 ELSE 2 * Pow2(k - 1)

\* wait_time = retry_delay * (2 ** attempt) * jitter, in half seconds
backoff_wait(delay, i, jitter) == delay * Pow2(i) * jitter

remove_watermark_with_gemini(n, delay, api_key, image_opens) ==
    /\ UNCHANGED <<batchVars, dbVars, fileVars>>
    /\ pc = "idle"
    /\ routine' = "remove_watermark_with_gemini"
    /\ max_retries' = n
    /\ retry_delay' = delay
    /\ attempt' = 0
    /\ last_error' = None
    /\ calls' = <<>>
    /\ sleeps' = <<>>
    /\ IF ~api_key \/ ~image_opens \/ ~range_max_retries(0, n)
       THEN /\ pc' = "returned"
            /\ result' = BoolResult(FALSE)
       ELSE /\ pc' = "watermark_loop"
            /\ result' = NoResult
    /\ UNCHANGED <<service, image_path, api_source, use_fallback, gemini_client>>

remove_watermark_attempt(response, jitter) ==
    /\ UNCHANGED <<batchVars, dbVars, fileVars>>
    /\ pc = "watermark_loop"
    /\ calls' = Append(calls, [api |-> "gemini_image", ok |-> response = "image",
                               exc |-> IF response = "error" THEN "Exception" ELSE None])
    /\ IF response = "image"
       THEN /\ result' = BoolResult(TRUE)
            /\ pc' = "returned"
            /\ UNCHANGED <<attempt, sleeps>>
       ELSE /\ sleeps' = IF sleep_before_retry(attempt, max_retries)
                         THEN Append(sleeps, backoff_wait(retry_delay, attempt, jitter))
                         ELSE sleeps
            /\ attempt' = attempt + 1
            /\ IF range_max_retries(attempt + 1, max_retries)
               THEN /\ pc' = "watermark_loop"
                    /\ result' = NoResult
               ELSE /\ pc' = "returned"
                    /\ result' = BoolResult(FALSE)
    /\ UNCHANGED <<routine, service, image_path, api_source, use_fallback, gemini_client,
                   max_retries, retry_delay, last_error>>

\* the caller takes the result; the next call starts from scratch
Return_to_caller ==
    /\ UNCHANGED <<batchVars, dbVars, fileVars>>
    /\ pc = "returned"
    /\ pc' = "idle"
    /\ routine' = "none"
    /\ result' = NoResult
    /\ calls' = <<>>
    /\ sleeps' = <<>>
    /\ attempt' = 0
    /\ last_error' = None
    /\ UNCHANGED <<service, image_path, api_source, use_fallback, gemini_client, max_retries, retry_delay>>


\* ------------------------------------------------- batch_image_upload.py
Files == {"a.png", "b.jpg", "notes.txt"}

Suffix(f) == IF f = "a.png" THEN ".png" ELSE IF f = "b.jpg" THEN ".jpg" ELSE ".txt"

SeqToSet(seq) == {seq[i] : i \in DOMAIN seq}

RECURSIVE Filter(_, _)
Filter(seq, keep) ==
    IF seq = <<>> THEN <<>>
    ELSE IF Head(seq) \in keep THEN <<Head(seq)>> \o Filter(Tail(seq), keep)
    ELSE Filter(Tail(seq), keep)

get_image_files(dir, count) ==
    LET found == Filter(dir, {f \in Files : Suffix(f) \in {".png", ".jpg", ".jpeg", ".gif", ".bmp", ".webp"}})
    IN  SubSeq(found, 1, IF Len(found) < count THEN Len(found) ELSE count)

get_failed_uploads(csv) ==
    {csv[i].local_filename : i \in {j \in DOMAIN csv : csv[j].upload_status = "failure"}}

get_already_uploaded(csv) ==
    {csv[i].local_filename : i \in {j \in DOMAIN csv : csv[j].upload_status = "success"}}

upload_batch(count, rs, dry_run, mv) ==
    /\ batch_pc = "idle"
    /\ LET found == get_image_files(ready, count)
           already_uploaded == IF rs THEN get_already_uploaded(output_csv) ELSE {}
           todo == Filter(found, Files \ already_uploaded)
       IN  IF todo = <<>> \/ dry_run
           THEN UNCHANGED batchVars
           ELSE /\ batch_pc' = "uploading"
                /\ image_files' = todo
                /\ resume' = rs
                /\ move_uploaded' = mv
                /\ UNCHANGED <<ready, output_csv>>
    /\ UNCHANGED <<retryVars, dbVars, fileVars>>

\* one iteration of the upload loop: upload_image, log_upload_result, move
upload_batch_iteration(success) ==
    /\ batch_pc = "uploading"
    /\ Len(output_csv) < MaxCsvRows
    /\ LET image_file == Head(image_files)
       IN  /\ output_csv' = Append(output_csv,
                    [local_filename |-> image_file,
                     upload_status |-> IF success THEN "success" ELSE "failure"])
           /\ ready' = IF success /\ move_uploaded
                       THEN Filter(ready, Files \ {image_file})
                       ELSE ready
    /\ image_files' = Tail(image_files)
    /\ batch_pc' = IF Tail(image_files) = <<>> THEN "idle" ELSE "uploading"
    /\ UNCHANGED <<resume, move_uploaded>>
    /\ UNCHANGED <<retryVars, dbVars, fileVars>>

\* the run is interrupted between two uploads
upload_batch_interrupted ==
    /\ batch_pc = "uploading"
    /\ batch_pc' = "idle"
    /\ image_files' = <<>>
    /\ UNCHANGED <<ready, output_csv, resume, move_uploaded>>
    /\ UNCHANGED <<retryVars, dbVars, fileVars>>

\* a file is put into img/ready
file_added(f) ==
    /\ f \notin SeqToSet(ready)
    /\ ready' = Append(ready, f)
    /\ UNCHANGED <<output_csv, batch_pc, image_files, resume, move_uploaded>>
    /\ UNCHANGED <<retryVars, dbVars, fileVars>>

InitBatch ==
    /\ ready = <<>>
    /\ output_csv = <<>>
    /\ batch_pc = "idle"
    /\ image_files = <<>>
    /\ resume = FALSE
    /\ move_uploaded = FALSE

NextBatch ==
    \/ \E count \in 1..MaxCount, rs \in BOOLEAN, dry_run \in BOOLEAN, mv \in BOOLEAN :
            upload_batch(count, rs, dry_run, mv)
    \/ \E success \in BOOLEAN : upload_batch_iteration(success)
    \/ upload_batch_interrupted
    \/ \E f \in Files : file_added(f)


\* ------------------------------------------------- database_manager.py
\* SQL NULL in an integer column
NULL == -1

\* columns of table images as created by initialize_database
ImagesColumns ==
    {"id", "timestamp", "original_filename", "original_path", "file_size_bytes",
     "upload_url", "uploaded_filename", "uploaded_path", "downloaded_size_bytes",
     "processing_time_seconds", "status", "error_message", "descriptive_name",
     "processed_path", "created_at", "updated_at"}

\* fields of the dataclass ImageRecord
ImageRecordFields ==
    {"id", "timestamp", "original_filename", "original_path", "file_size_bytes",
     "upload_url", "uploaded_filename", "uploaded_path", "downloaded_size_bytes",
     "processing_time_seconds", "status", "error_message", "descriptive_name",
     "processed_path"}

ImageRow(original_filename, uploaded_filename, descriptive_name, status, origin_image_id) ==
    [original_filename |-> original_filename, uploaded_filename |-> uploaded_filename,
     descriptive_name |-> descriptive_name, status |-> status,
     origin_image_id |-> origin_image_id]

PromptRow(image_id) == [image_id |-> image_id]

VideoRow(image_id, prompt_id, status) ==
    [image_id |-> image_id, prompt_id |-> prompt_id, status |-> status]

Ids(table) == 1..Len(table)

connection_without_pragma == [foreign_keys |-> FALSE]

\* sqlite3.connect followed by PRAGMA foreign_keys = ON
get_connection == [foreign_keys |-> TRUE]

\* the constraints of table images: original_filename and status NOT NULL
ImageRowAccepted(row) == row.original_filename # None /\ row.status # None

\* the constraints of table prompts: image_id NOT NULL REFERENCES images(id)
PromptRowAccepted(conn, row) ==
    /\ row.image_id # NULL
    /\ conn.foreign_keys => row.image_id \in Ids(images)

\* the constraints of table videos
VideoRowAccepted(conn, row) ==
    /\ row.image_id # NULL
    /\ row.status # None
    /\ conn.foreign_keys => row.image_id \in Ids(images)
    /\ conn.foreign_keys => (row.prompt_id = NULL \/ row.prompt_id \in Ids(prompts))

LastRowId(op, id, n) == [op |-> op, kind |-> "lastrowid", image_id |-> id, value |-> n]
IntegrityError(op, id) == [op |-> op, kind |-> "IntegrityError", image_id |-> id, value |-> NULL]

insert_image_record(record) ==
    /\ Len(images) < MaxImages
    /\ IF ImageRowAccepted(record)
       THEN /\ images' = Append(images, record)
            /\ db_result' = LastRowId("insert_image_record", NULL, Len(images) + 1)
       ELSE /\ images' = images
            /\ db_result' = IntegrityError("insert_image_record", NULL)
    /\ UNCHANGED <<prompts, videos, tpVars>>
    /\ UNCHANGED <<retryVars, batchVars, fileVars>>

insert_prompt_record(record) ==
    /\ Len(prompts) < MaxPrompts
    /\ IF PromptRowAccepted(get_connection, record)
       THEN /\ prompts' = Append(prompts, record)
            /\ db_result' = LastRowId("insert_prompt_record", record.image_id, Len(prompts) + 1)
       ELSE /\ prompts' = prompts
            /\ db_result' = IntegrityError("insert_prompt_record", record.image_id)
    /\ UNCHANGED <<images, videos, tpVars>>
    /\ UNCHANGED <<retryVars, batchVars, fileVars>>

insert_video_record(record) ==
    /\ Len(videos) < MaxVideos
    /\ IF VideoRowAccepted(get_connection, record)
       THEN /\ videos' = Append(videos, record)
            /\ db_result' = LastRowId("insert_video_record", record.image_id, Len(videos) + 1)
       ELSE /\ videos' = videos
            /\ db_result' = IntegrityError("insert_video_record", record.image_id)
    /\ UNCHANGED <<images, prompts, tpVars>>
    /\ UNCHANGED <<retryVars, batchVars, fileVars>>

\* ImageRecord(**dict(row)): every column becomes a keyword argument
ImageRecord_from_row(id, row) ==
    IF ImagesColumns \subseteq ImageRecordFields
    THEN [kind |-> "ImageRecord", id |-> id, original_filename |-> row.original_filename,
          status |-> row.status]
    ELSE [kind |-> "TypeError", id |-> NULL, original_filename |-> None, status |-> None]

NoImageRecord == [kind |-> "None", id |-> NULL, original_filename |-> None, status |-> None]

\* SELECT * FROM images WHERE original_filename = ?  ... fetchone()
get_image_by_filename_result(filename) ==
    LET matching == {i \in Ids(images) : images[i].original_filename = filename}
    IN  IF matching = {} THEN NoImageRecord
        ELSE LET id == CHOOSE i \in matching : \A j \in matching : i <= j
             IN  ImageRecord_from_row(id, images[id])

get_image_by_filename(filename) ==
    /\ db_result' = [op |-> "get_image_by_filename", filename |-> filename,
                     record |-> get_image_by_filename_result(filename)]
    /\ db_result' # db_result
    /\ UNCHANGED <<images, prompts, videos, tpVars>>
    /\ UNCHANGED <<retryVars, batchVars, fileVars>>

Pics == {"p1.jpg", "p2.jpg"}

ApiStatuses == {"pending", None}

InitDb ==
    /\ images = <<>>
    /\ prompts = <<>>
    /\ videos = <<>>
    /\ db_result = [op |-> "none"]
    /\ tp_pc = "idle"
    /\ tp_image_id = NULL
    /\ tp_prompt_id = NULL

\* DatabaseManager called with arbitrary records
NextDbManager ==
    \/ \E name \in Pics \cup {None}, status \in ApiStatuses :
            insert_image_record(ImageRow(name, None, None, status, NULL))
    \/ \E id \in 0..(MaxImages + 1) \cup {NULL} : insert_prompt_record(PromptRow(id))
    \/ \E id \in 0..(MaxImages + 1) \cup {NULL}, pid \in 1..(MaxPrompts + 1) \cup {NULL} :
            insert_video_record(VideoRow(id, pid, "pending"))
    \/ \E name \in Pics : get_image_by_filename(name)


\* ------------------------------------------------- database_manager.py: migrate_existing_data
\* what log_to_csv writes in the status column of logs/image_uploading.csv
CsvStatusTexts == {"success", "failed"}

\* status=row.get('status', 'unknown')
csv_row_status(has_status_column, text) ==
    IF has_status_column THEN text ELSE "unknown"

\* one CSV row: insert_image_record, its exception caught, its result unused
migrate_existing_data_csv_row(name, has_status_column, text) ==
    /\ tp_pc = "idle"
    /\ Len(images) < MaxImages
    /\ LET record == ImageRow(name, None, None, csv_row_status(has_status_column, text), NULL)
       IN  images' = IF ImageRowAccepted(record) THEN Append(images, record) ELSE images
    /\ UNCHANGED <<prompts, videos, db_result, tpVars>>
    /\ UNCHANGED <<retryVars, batchVars, fileVars>>

\* the JSON part: a prompt row is inserted when the image record is found
migrate_existing_data_json(pic_name) ==
    /\ tp_pc = "idle"
    /\ LET found == get_image_by_filename_result(pic_name)
           record == PromptRow(found.id)
       IN  /\ db_result' = [op |-> "get_image_by_filename", filename |-> pic_name,
                            record |-> found]
           /\ db_result' # db_result
           /\ IF found.kind = "ImageRecord" /\ PromptRowAccepted(get_connection, record)
              THEN /\ Len(prompts) < MaxPrompts
                   /\ prompts' = Append(prompts, record)
              ELSE prompts' = prompts
    /\ UNCHANGED <<images, videos, tpVars>>
    /\ UNCHANGED <<retryVars, batchVars, fileVars>>

\* ------------------------------------------------- convert_json_to_db.py, convert_used_json_to_db.py
\* parse_filename_for_descriptive_name on the names used here
parse_filename_for_descriptive_name(filename) ==
    IF filename = "p1.jpg" THEN "P1" ELSE IF filename = "p2.jpg" THEN "P2" ELSE "Gen"

Matching(pic_name, descriptive_name) ==
    {i \in Ids(images) : \/ images[i].descriptive_name = descriptive_name
                         \/ images[i].original_filename = pic_name
                         \/ images[i].uploaded_filename = pic_name}

\* the images table and the image id after find_or_create_image_record;
\* `found` is the row fetchone() returned, 0 when there was none
find_or_create_image_record(found, pic_name, descriptive_name) ==
    IF found # 0
    THEN [images |-> [images EXCEPT ![found] =
                        [@ EXCEPT !.uploaded_filename = pic_name, !.status = "success",
                                  !.descriptive_name = descriptive_name]],
          image_id |-> found]
    ELSE [images |-> Append(images, ImageRow(pic_name, pic_name, descriptive_name, "success", NULL)),
          image_id |-> Len(images) + 1]

\* get_or_create_legacy_image_id
get_or_create_legacy_image_id ==
    LET existing == {i \in Ids(images) : /\ images[i].descriptive_name = "Legacy System Migration"
                                         /\ images[i].original_filename = "legacy_placeholder"}
    IN  IF existing # {}
        THEN [images |-> images, image_id |-> CHOOSE i \in existing : \A j \in existing : i <= j]
        ELSE [images |-> Append(images, ImageRow("legacy_placeholder", None,
                                                  "Legacy System Migration", "legacy", NULL)),
              image_id |-> Len(images) + 1]

\* create_prompt_record: update the image's prompt row or insert one
create_prompt_record(image_id) ==
    LET existing == {i \in Ids(prompts) : prompts[i].image_id = image_id}
    IN  IF existing # {}
        THEN [prompts |-> prompts, prompt_id |-> CHOOSE i \in existing : \A j \in existing : i <= j]
        ELSE [prompts |-> Append(prompts, PromptRow(image_id)), prompt_id |-> Len(prompts) + 1]

\* create_video_record: UPDATE videos ... WHERE image_id = ?, or INSERT
create_video_record(image_id, prompt_id, video_status) ==
    IF \E i \in Ids(videos) : videos[i].image_id = image_id
    THEN [i \in Ids(videos) |->
            IF videos[i].image_id = image_id
            THEN VideoRow(image_id, prompt_id, video_status)
            ELSE videos[i]]
    ELSE Append(videos, VideoRow(image_id, prompt_id, video_status))

raw_log_status(log_status) == log_status

\* load_video_generation_logs: 'completed' if status == 'success' else 'failed'
logged_video_status(log_status) ==
    IF log_status = "success" THEN "completed" ELSE "failed"

\* create_video_record of convert_used_json_to_db: 'pending' without a log entry
video_status_from_logs(in_logs, log_status) ==
    IF in_logs THEN logged_video_status(log_status) ELSE "pending"

WithinBounds(imgs, prs, vids) ==
    Len(imgs) <= MaxImages /\ Len(prs) <= MaxPrompts /\ Len(vids) <= MaxVideos

\* one JSON file of convert_json_to_db.process_json_files
process_json_file(pic_name, found) ==
    /\ tp_pc = "idle"
    /\ LET descriptive_name == parse_filename_for_descriptive_name(pic_name)
           matching == Matching(pic_name, descriptive_name)
       IN  /\ IF matching = {} THEN found = 0 ELSE found \in matching
           /\ LET img == find_or_create_image_record(found, pic_name, descriptive_name)
                  pr == create_prompt_record(img.image_id)
                  vids == create_video_record(img.image_id, pr.prompt_id, "pending")
              IN  /\ WithinBounds(img.images, pr.prompts, vids)
                  /\ images' = img.images
                  /\ prompts' = pr.prompts
                  /\ videos' = vids
    /\ UNCHANGED <<db_result, tpVars>>
    /\ UNCHANGED <<retryVars, batchVars, fileVars>>

\* one JSON file of convert_used_json_to_db.process_used_json_files
process_used_json_file(has_reference, pic_name, found, in_logs, log_status) ==
    /\ tp_pc = "idle"
    /\ LET descriptive_name == parse_filename_for_descriptive_name(pic_name)
           matching == Matching(pic_name, descriptive_name)
       IN  /\ IF has_reference /\ matching # {} THEN found \in matching ELSE found = 0
           /\ LET img == IF has_reference
                         THEN find_or_create_image_record(found, pic_name, descriptive_name)
                         ELSE get_or_create_legacy_image_id
                  pr == create_prompt_record(img.image_id)
                  vids == create_video_record(img.image_id, pr.prompt_id,
                                              video_status_from_logs(in_logs, log_status))
              IN  /\ WithinBounds(img.images, pr.prompts, vids)
                  /\ images' = img.images
                  /\ prompts' = pr.prompts
                  /\ videos' = vids
    /\ UNCHANGED <<db_result, tpVars>>
    /\ UNCHANGED <<retryVars, batchVars, fileVars>>

\* ------------------------------------------------- temp_generate_images_from_db.py
\* create_new_image_record for an image generated from a success image with prompts
create_new_image_record(origin_image_id) ==
    /\ tp_pc = "idle"
    /\ origin_image_id \in Ids(images)
    /\ images[origin_image_id].status = "success"
    /\ images[origin_image_id].origin_image_id = NULL
    /\ \E i \in Ids(prompts) : prompts[i].image_id = origin_image_id
    /\ Len(images) < MaxImages
    /\ images' = Append(images, ImageRow("gen.png", None, "Generated from prompt", "pending",
                                         origin_image_id))
    /\ UNCHANGED <<prompts, videos, db_result, tpVars>>
    /\ UNCHANGED <<retryVars, batchVars, fileVars>>

\* ------------------------------------------------- temp_process_generated_images.py
update_image_status(image_id, status) ==
    [images EXCEPT ![image_id].status = status]

status_while_uploading(upload_ok) == IF upload_ok THEN "uploading" ELSE "failed"

\* the status written after the upload step (lines 169-189)
status_after_upload(upload_ok) == IF upload_ok THEN "uploaded" ELSE "failed"

\* upload_and_process_image up to the update that records the upload URL
upload_and_process_image(image_id, file_exists, upload_ok) ==
    /\ tp_pc = "idle"
    /\ image_id \in Ids(images)
    /\ images[image_id].status = "pending"
    /\ images[image_id].origin_image_id # NULL
    /\ images' = update_image_status(image_id, status_after_upload(file_exists /\ upload_ok))
    /\ IF file_exists /\ upload_ok
       THEN tp_pc' = "prompts" /\ tp_image_id' = image_id
       ELSE tp_pc' = "idle" /\ tp_image_id' = NULL
    /\ UNCHANGED <<prompts, videos, db_result, tp_prompt_id>>
    /\ UNCHANGED <<retryVars, batchVars, fileVars>>

\* steps 2 and 3: generate the prompts and insert the prompt record
upload_and_process_image_prompts(prompts_ok) ==
    /\ tp_pc = "prompts"
    /\ LET record == PromptRow(tp_image_id)
           accepted == PromptRowAccepted(get_connection, record)
       IN  IF prompts_ok /\ accepted
           THEN /\ Len(prompts) < MaxPrompts
                /\ prompts' = Append(prompts, record)
                /\ tp_prompt_id' = Len(prompts) + 1
                /\ tp_pc' = "download"
                /\ UNCHANGED <<images, tp_image_id>>
           ELSE /\ images' = update_image_status(tp_image_id, "failed")
                /\ tp_pc' = "idle"
                /\ tp_image_id' = NULL
                /\ UNCHANGED <<prompts, tp_prompt_id>>
    /\ UNCHANGED <<videos, db_result>>
    /\ UNCHANGED <<retryVars, batchVars, fileVars>>

\* steps 5 to 9: download, video record, final status
upload_and_process_image_finish(download_ok) ==
    /\ tp_pc = "download"
    /\ LET record == VideoRow(tp_image_id, tp_prompt_id, "pending")
           accepted == VideoRowAccepted(get_connection, record)
       IN  IF download_ok /\ accepted
           THEN /\ Len(videos) < MaxVideos
                /\ videos' = Append(videos, record)
                /\ images' = update_image_status(tp_image_id, "success")
           ELSE /\ images' = update_image_status(tp_image_id, "failed")
                /\ UNCHANGED videos
    /\ tp_pc' = "idle"
    /\ tp_image_id' = NULL
    /\ tp_prompt_id' = NULL
    /\ UNCHANGED <<prompts, db_result>>
    /\ UNCHANGED <<retryVars, batchVars, fileVars>>

\* ------------------------------------------------- fix_failed_images_test.py
\* copy_and_fix_image on a failed image whose processed file exists
copy_and_fix_image(image_id) ==
    /\ tp_pc = "idle"
    /\ image_id \in Ids(images)
    /\ images[image_id].status = "failed"
    /\ images' = update_image_status(image_id, "completed")
    /\ UNCHANGED <<prompts, videos, db_result, tpVars>>
    /\ UNCHANGED <<retryVars, batchVars, fileVars>>

\* ------------------------------------------------- fix_image_uploading.py
VerifyOutcomes == {"download_failed", "no_recorded_size", "size_match", "size_mismatch"}

\* the status verify_image_sizes leaves on a checked row; the rows it checks
\* have status 'success' (upload_url and the id window are not modelled, so
\* every success row may be checked)
verified_status(outcome) ==
    IF outcome \in {"download_failed", "size_mismatch"} THEN "failed" ELSE "success"

verify_image_sizes_row(image_id, outcome) ==
    /\ tp_pc = "idle"
    /\ image_id \in Ids(images)
    /\ images[image_id].status = "success"
    /\ images' = update_image_status(image_id, verified_status(outcome))
    /\ UNCHANGED <<prompts, videos, db_result, tpVars>>
    /\ UNCHANGED <<retryVars, batchVars, fileVars>>

\* one failed row of upload_failed_images: update_image_upload_record with 'success' or 'failed'
upload_failed_images_row(image_id, upload_ok) ==
    /\ tp_pc = "idle"
    /\ image_id \in Ids(images)
    /\ images[image_id].status = "failed"
    /\ images' = update_image_status(image_id, IF upload_ok THEN "success" ELSE "failed")
    /\ UNCHANGED <<prompts, videos, db_result, tpVars>>
    /\ UNCHANGED <<retryVars, batchVars, fileVars>>

\* the picture names the JSON files and CSV rows of the scripts carry
ScriptPics == Pics

NextScripts ==
    \/ \E name \in ScriptPics, has_status_column \in BOOLEAN, text \in CsvStatusTexts :
            migrate_existing_data_csv_row(name, has_status_column, text)
    \/ \E pic_name \in ScriptPics : migrate_existing_data_json(pic_name)
    \/ \E pic_name \in ScriptPics, found \in 0..MaxImages : process_json_file(pic_name, found)
    \/ \E has_reference \in BOOLEAN, pic_name \in ScriptPics, found \in 0..MaxImages,
          in_logs \in BOOLEAN, log_status \in {"success", "failure"} :
            process_used_json_file(has_reference, pic_name, found, in_logs, log_status)
    \/ \E origin_image_id \in 1..MaxImages : create_new_image_record(origin_image_id)
    \/ \E image_id \in 1..MaxImages, file_exists \in BOOLEAN, upload_ok \in BOOLEAN :
            upload_and_process_image(image_id, file_exists, upload_ok)
    \/ \E prompts_ok \in BOOLEAN : upload_and_process_image_prompts(prompts_ok)
    \/ \E download_ok \in BOOLEAN : upload_and_process_image_finish(download_ok)
    \/ \E image_id \in 1..MaxImages : copy_and_fix_image(image_id)
    \/ \E image_id \in 1..MaxImages, outcome \in VerifyOutcomes :
            verify_image_sizes_row(image_id, outcome)
    \/ \E image_id \in 1..MaxImages, upload_ok \in BOOLEAN : upload_failed_images_row(image_id, upload_ok)

\* ------------------------------------------------- check_json_images.py
MaxCopies == 2

JsonFiles == {"a.json", "b.json"}

\* json_files.sort(): the names in order
SortedJsonFiles == <<"a.json", "b.json">>

\* what a file in out/prompt_json can hold
JsonContents == {"invalid_json", "without_image_url", "with_image_url"}

\* get_json_files: sorted by name, cut to limit when limit is not None or 0
get_json_files(dir, limit) ==
    LET found == Filter(SortedJsonFiles, dir)
    IN  IF limit = 0 \/ Len(found) <= limit THEN found ELSE SubSeq(found, 1, limit)

DownloadOutcomes == {"downloaded", "timeout", "network_error"}

MoveOutcomes == {"moved", "move_failed", "moved_error_log_failed"}

move_only_invalid(content, download) == content = "invalid_json"

\* the three places where check_json_images calls move_to_failed
calls_move_to_failed(content, download) ==
    \/ content = "invalid_json"
    \/ content = "without_image_url"
    \/ download # "downloaded"

\* move_to_failed's return value
move_to_failed(move) == move = "moved"

\* shutil.move has moved the file
file_moved(move) == move \in {"moved", "moved_error_log_failed"}

check_json_images(limit) ==
    /\ cj_pc = "idle"
    /\ LET found == get_json_files(json_dir, limit)
       IN  /\ json_files' = found
           /\ cj_pc' = IF found = <<>> THEN "idle" ELSE "checking"
    /\ processed' = <<>>
    /\ cj_counts' = [total_processed |-> 0, download_success |-> 0, download_failures |-> 0]
    /\ UNCHANGED <<json_dir, json_data, failed_dir>>
    /\ UNCHANGED <<retryVars, batchVars, dbVars, duomiVars, processorVars, verifierVars, renameVars, updaterVars, tempVars, pollVars>>

\* one iteration of the loop over json_files
check_json_images_iteration(download, move) ==
    /\ cj_pc = "checking"
    /\ LET json_path == Head(json_files)
           content == json_data[json_path]
           downloads == content = "with_image_url"
           to_failed == calls_move_to_failed(content, download)
       IN  /\ downloads \/ download = "downloaded"
           /\ to_failed \/ move = "moved"
           /\ (to_failed /\ file_moved(move)) => failed_dir[json_path] < MaxCopies
           /\ json_dir' = IF to_failed /\ file_moved(move) THEN json_dir \ {json_path} ELSE json_dir
           /\ failed_dir' = IF to_failed /\ file_moved(move)
                            THEN [failed_dir EXCEPT ![json_path] = @ + 1]
                            ELSE failed_dir
           /\ processed' = Append(processed,
                   [json_path |-> json_path, content |-> content,
                    download |-> IF downloads THEN download ELSE "not_tried",
                    move |-> IF to_failed THEN move ELSE "not_tried"])
           /\ cj_counts' = [total_processed |-> cj_counts.total_processed + 1,
                            download_success |-> cj_counts.download_success +
                                (IF ~to_failed THEN 1 ELSE 0),
                            download_failures |-> cj_counts.download_failures +
                                (IF to_failed /\ move_to_failed(move) THEN 1 ELSE 0)]
    /\ json_files' = Tail(json_files)
    /\ cj_pc' = IF Tail(json_files) = <<>> THEN "idle" ELSE "checking"
    /\ UNCHANGED json_data
    /\ UNCHANGED <<retryVars, batchVars, dbVars, duomiVars, processorVars, verifierVars, renameVars, updaterVars, tempVars, pollVars>>

\* between two runs the pipeline writes a JSON file into out/prompt_json;
\* what the last run reported no longer describes the directory
json_file_written(f, content) ==
    /\ cj_pc = "idle"
    /\ f \notin json_dir
    /\ json_dir' = json_dir \cup {f}
    /\ json_data' = [json_data EXCEPT ![f] = content]
    /\ processed' = <<>>
    /\ UNCHANGED <<failed_dir, cj_pc, json_files, cj_counts>>
    /\ UNCHANGED <<retryVars, batchVars, dbVars, duomiVars, processorVars, verifierVars, renameVars, updaterVars, tempVars, pollVars>>

InitChecker ==
    /\ json_dir = {}
    /\ json_data = [f \in JsonFiles |-> "with_image_url"]
    /\ failed_dir = [f \in JsonFiles |-> 0]
    /\ cj_pc = "idle"
    /\ json_files = <<>>
    /\ processed = <<>>
    /\ cj_counts = [total_processed |-> 0, download_success |-> 0, download_failures |-> 0]

NextChecker ==
    \/ \E limit \in 0..Cardinality(JsonFiles) : check_json_images(limit)
    \/ \E download \in DownloadOutcomes, move \in MoveOutcomes :
            check_json_images_iteration(download, move)
    \/ \E f \in JsonFiles, content \in JsonContents : json_file_written(f, content)

\* ------------------------------------------------- generate_video_duomi.py
MaxPolls == 2

DuomiImages == {"p1.jpg"}

DuomiJsonFiles == {"clip.json", "Error_message.json"}

\* json_file.name.lower().startswith("error_message")
IsErrorMessage(f) == f = "Error_message.json"

NoFile == [kind |-> "absent", pic_name |-> None, video_prompt |-> FALSE]

InvalidJson == [kind |-> "invalid_json", pic_name |-> None, video_prompt |-> FALSE]

\* a JSON object; video_prompt: it has the keys video_prompt and video_name
JsonObject(pic_name, video_prompt) ==
    [kind |-> "json", pic_name |-> pic_name, video_prompt |-> video_prompt]

Present(dir) == {f \in DuomiJsonFiles : dir[f].kind # "absent"}

pairs_with_error_files(dir, img_ready_dir) ==
    {f \in Present(dir) : dir[f].kind = "json" /\ dir[f].pic_name \in img_ready_dir}

\* main's matched_pairs: the JSON files, Error_message files skipped, whose
\* pic_name is a file in img/img_ready_dir
matched_pairs(dir, img_ready_dir) ==
    {f \in Present(dir) : ~IsErrorMessage(f) /\ dir[f].kind = "json" /\ dir[f].pic_name \in img_ready_dir}

find_matching_json_for_image(image, dir) ==
    {f \in Present(dir) : ~IsErrorMessage(f) /\ dir[f].kind = "json" /\ dir[f].pic_name = image}

find_images_without_json(img_ready_dir, dir) ==
    {image \in img_ready_dir : find_matching_json_for_image(image, dir) = {}}

VisionOutcomes == {"returncode_nonzero", "wrote_json", "wrote_nothing"}

SubmitOutcomes == {"task_id", "request_error", "undecodable_response", "code_nonzero"}

NoRun ==
    [json_arg |-> None, json_file_path |-> None, pic_name |-> None, ran_vision |-> FALSE,
     submitted |-> FALSE, polls |-> 0, generation_status |-> "none", finished |-> FALSE]

\* main up to the polling loop: choose the JSON file, load it, submit the job.
\* json_file is the file glob lists first among the matched pairs, the file
\* test_gemini_vision.py writes, or the newest file, whichever main asks for;
\* image_url: the JSON or argv[1] gives an image URL
main(keys, json_arg, json_file, vision, image, image_url, submit) ==
    /\ dv_pc = "idle"
    /\ LET matched == matched_pairs(JSON_PROMPT_DIR, IMG_READY_DIR)
           without == find_images_without_json(IMG_READY_DIR, JSON_PROMPT_DIR)
           searches == keys /\ json_arg = None
           runs_vision == searches /\ matched = {} /\ without # {}
           wrote == runs_vision /\ vision = "wrote_json"
           dir == IF wrote
                  THEN [JSON_PROMPT_DIR EXCEPT ![json_file] = JsonObject(image, TRUE)]
                  ELSE JSON_PROMPT_DIR
           json_file_path ==
               IF ~keys THEN None
               ELSE IF json_arg # None THEN json_arg
               ELSE IF matched # {} THEN json_file
               ELSE IF without = {} \/ vision = "returncode_nonzero" THEN None
               ELSE IF wrote THEN json_file
               ELSE IF Present(dir) = {} THEN None
               ELSE json_file
           data == IF json_file_path = None THEN NoFile ELSE dir[json_file_path]
           loaded == data.kind = "json" /\ data.video_prompt /\ image_url
           submitted == loaded /\ submit = "task_id"
       IN  /\ (searches /\ matched # {}) => json_file \in matched
           /\ wrote => (json_file \notin Present(JSON_PROMPT_DIR) /\ image \in without)
           /\ (runs_vision /\ vision = "wrote_nothing" /\ Present(dir) # {}) =>
                  json_file \in Present(dir)
           /\ JSON_PROMPT_DIR' = dir
           /\ dv_run' = [json_arg |-> json_arg, json_file_path |-> json_file_path,
                         pic_name |-> data.pic_name, ran_vision |-> runs_vision,
                         submitted |-> submitted, polls |-> 0,
                         generation_status |-> "failure", finished |-> ~submitted]
           /\ dv_pc' = IF submitted THEN "polling" ELSE "idle"
    /\ UNCHANGED <<IMG_READY_DIR, IMG_GENERATED_DIR>>
    /\ UNCHANGED <<retryVars, batchVars, dbVars, checkerVars, processorVars, verifierVars, renameVars, updaterVars, tempVars, pollVars>>

PollResponses ==
    {"code_nonzero", "processing", "succeed_without_url", "succeed", "succeed_download_error",
     "failed", "canceled", "request_error", "unexpected_error"}

\* the responses after which the loop sleeps and polls again
polls_again(response) == response \in {"code_nonzero", "processing", "succeed_without_url"}

\* the responses after which the loop reaches the block that moves the image
moves_image(response) == response \in {"succeed", "failed", "canceled"}

\* one iteration of the polling loop; after the last one main saves the
\* refined prompt, moves the JSON file out of out/prompt_json into used/ and
\* logs the run
main_poll(response, image_move_ok, json_move_ok) ==
    /\ dv_pc = "polling"
    /\ IF polls_again(response)
       THEN /\ dv_run.polls < MaxPolls
            /\ dv_run' = [dv_run EXCEPT !.polls = @ + 1]
            /\ UNCHANGED <<IMG_READY_DIR, IMG_GENERATED_DIR, JSON_PROMPT_DIR, dv_pc>>
       ELSE LET pic_name == dv_run.pic_name
                moved == /\ moves_image(response)
                         /\ pic_name # None
                         /\ pic_name \in IMG_READY_DIR
                         /\ image_move_ok
            IN  /\ IMG_READY_DIR' = IF moved THEN IMG_READY_DIR \ {pic_name} ELSE IMG_READY_DIR
                /\ IMG_GENERATED_DIR' = IF moved THEN IMG_GENERATED_DIR \cup {pic_name}
                                        ELSE IMG_GENERATED_DIR
                /\ JSON_PROMPT_DIR' = IF json_move_ok
                                      THEN [JSON_PROMPT_DIR EXCEPT ![dv_run.json_file_path] = NoFile]
                                      ELSE JSON_PROMPT_DIR
                /\ dv_run' = [dv_run EXCEPT
                                !.generation_status = IF response = "succeed" THEN "success" ELSE "failure",
                                !.finished = TRUE]
                /\ dv_pc' = "idle"
    /\ UNCHANGED <<retryVars, batchVars, dbVars, checkerVars, processorVars, verifierVars, renameVars, updaterVars, tempVars, pollVars>>

\* between two runs an image is put into img/ready
duomi_image_added(image) ==
    /\ dv_pc = "idle"
    /\ image \notin IMG_READY_DIR
    /\ IMG_READY_DIR' = IMG_READY_DIR \cup {image}
    /\ dv_run' = NoRun
    /\ UNCHANGED <<IMG_GENERATED_DIR, JSON_PROMPT_DIR, dv_pc>>
    /\ UNCHANGED <<retryVars, batchVars, dbVars, checkerVars, processorVars, verifierVars, renameVars, updaterVars, tempVars, pollVars>>

\* between two runs the pipeline writes a JSON file into out/prompt_json
duomi_json_written(f, content) ==
    /\ dv_pc = "idle"
    /\ f \notin Present(JSON_PROMPT_DIR)
    /\ JSON_PROMPT_DIR' = [JSON_PROMPT_DIR EXCEPT ![f] = content]
    /\ dv_run' = NoRun
    /\ UNCHANGED <<IMG_READY_DIR, IMG_GENERATED_DIR, dv_pc>>
    /\ UNCHANGED <<retryVars, batchVars, dbVars, checkerVars, processorVars, verifierVars, renameVars, updaterVars, tempVars, pollVars>>

InitDuomi ==
    /\ IMG_READY_DIR = {}
    /\ IMG_GENERATED_DIR = {}
    /\ JSON_PROMPT_DIR = [f \in DuomiJsonFiles |-> NoFile]
    /\ dv_pc = "idle"
    /\ dv_run = NoRun

NextDuomi ==
    \/ \E keys \in BOOLEAN, json_arg \in DuomiJsonFiles \cup {None}, json_file \in DuomiJsonFiles,
          vision \in VisionOutcomes, image \in DuomiImages, image_url \in BOOLEAN,
          submit \in SubmitOutcomes :
            main(keys, json_arg, json_file, vision, image, image_url, submit)
    \/ \E response \in PollResponses, image_move_ok \in BOOLEAN, json_move_ok \in BOOLEAN :
            main_poll(response, image_move_ok, json_move_ok)
    \/ \E image \in DuomiImages : duomi_image_added(image)
    \/ \E f \in DuomiJsonFiles, pic_name \in DuomiImages \cup {None}, video_prompt \in BOOLEAN :
            \/ duomi_json_written(f, JsonObject(pic_name, video_prompt))
            \/ duomi_json_written(f, InvalidJson)

\* ------------------------------------------------- parse_image_and_generate_json.py
MaxLogRows == 3

ReadyImages == {"a.png", "b.jpg"}

ProcessingResult(success, original_filename, error) ==
    [success |-> success, original_filename |-> original_filename, error |-> error]

\* how far process_single_image gets
ProcessingOutcomes ==
    {"upload_failed", "json_failed", "download_failed", "exception", "saved"}

\* the error of the ProcessingResult returned for each outcome
processing_error(outcome) ==
    CASE outcome = "upload_failed" -> "Failed to upload image"
      [] outcome = "json_failed" -> "Failed to generate video JSON description"
      [] outcome = "download_failed" -> "Failed to download image"
      [] outcome = "exception" -> "Unexpected error"
      [] outcome = "saved" -> None

\* the outcomes after which process_single_image calls log_to_csv
logs_to_csv(outcome) == outcome \in {"exception", "saved"}

\* the row log_to_csv appends
log_to_csv(rows, r) ==
    Append(rows, [original_filename |-> r.original_filename,
                  status |-> IF r.success THEN "success" ELSE "failed"])

process_single_image(image, outcome) ==
    /\ IF image \in processed_images
       THEN /\ ps_result' = ProcessingResult(FALSE, image, "Already processed - skipped")
            /\ UNCHANGED <<csv_log_path, processed_images>>
       ELSE LET r == ProcessingResult(outcome = "saved", image, processing_error(outcome))
            IN  /\ logs_to_csv(outcome) => Len(csv_log_path) < MaxLogRows
                /\ ps_result' = r
                /\ csv_log_path' = IF logs_to_csv(outcome) THEN log_to_csv(csv_log_path, r)
                                   ELSE csv_log_path
                /\ processed_images' = IF outcome = "saved" THEN processed_images \cup {image}
                                       ELSE processed_images
    /\ UNCHANGED <<retryVars, batchVars, dbVars, checkerVars, duomiVars, verifierVars, renameVars, updaterVars, tempVars, pollVars>>

InitProcessor ==
    /\ csv_log_path = <<>>
    /\ processed_images = {}
    /\ ps_result = ProcessingResult(FALSE, None, None)

NextProcessor ==
    \E image \in ReadyImages, outcome \in ProcessingOutcomes : process_single_image(image, outcome)

\* ------------------------------------------------- fix_image_uploading.py (ImageSizeVerifier)
MaxSize == 2

\* ids of images rows: 650 lies outside the window of the query, 651 and 652 inside
VerifierIds == {650, 651, 652}

NoRow == [kind |-> "absent"]

UploadUrls == {None, "", "https://iili.io/x.jpg"}

VerifierRow(upload_url, downloaded_size_bytes, status, error_message) ==
    [kind |-> "row", upload_url |-> upload_url,
     downloaded_size_bytes |-> downloaded_size_bytes, status |-> status,
     error_message |-> error_message]

\* the WHERE clause of get_recent_images_with_urls
where_clause(table, id) ==
    /\ table[id].kind = "row"
    /\ table[id].upload_url # None /\ table[id].upload_url # ""
    /\ table[id].status = "success"
    /\ id < 656 /\ id > 650

\* ORDER BY id ASC LIMIT limit
get_recent_images_with_urls(table, limit) ==
    LET selected == {id \in VerifierIds : where_clause(table, id)}
    IN  {id \in selected : Cardinality({j \in selected : j < id}) < limit}

\* what download_image returns: (success, actual_size)
DownloadResults ==
    {[success |-> FALSE, actual_size |-> NULL]} \cup
    {[success |-> TRUE, actual_size |-> n] : n \in 1..MaxSize}

update_image_record(row, downloaded_size, status, error_message) ==
    [row EXCEPT !.downloaded_size_bytes = downloaded_size, !.status = status,
                !.error_message = error_message]

\* the loop body of verify_image_sizes with every row rewritten when its download succeeds
rewrite_verified_image(image, d) ==
    IF ~d.success
    THEN update_image_record(image, image.downloaded_size_bytes, "failed", "Download failed")
    ELSE IF image.downloaded_size_bytes = d.actual_size
         THEN update_image_record(image, d.actual_size, "success", None)
         ELSE update_image_record(image, d.actual_size, "failed", "size not match")

\* the loop body of verify_image_sizes for one image
verify_image(image, d) ==
    IF ~d.success
    THEN update_image_record(image, image.downloaded_size_bytes, "failed", "Download failed")
    ELSE IF image.downloaded_size_bytes = NULL
         THEN update_image_record(image, d.actual_size, "success", None)
         ELSE IF d.actual_size = image.downloaded_size_bytes
              THEN image
              ELSE update_image_record(image, d.actual_size, "failed", "size not match")

NoVerifyRun == [kind |-> "none"]

\* limit 0 stands for no --limit: limit or 999999
verify_image_sizes(limit, download) ==
    /\ LET images_ == get_recent_images_with_urls(verifier_db,
                           IF limit = 0 THEN 999999 ELSE limit)
       IN  /\ DOMAIN download = images_
           /\ verifier_db' = [id \in VerifierIds |->
                   IF id \in images_ THEN verify_image(verifier_db[id], download[id])
                   ELSE verifier_db[id]]
           /\ verify_run' = [kind |-> "run", limit |-> limit, checked |-> images_,
                             download |-> download]
    /\ UNCHANGED <<retryVars, batchVars, dbVars, checkerVars, duomiVars, processorVars, renameVars, updaterVars, tempVars, pollVars>>

\* another script of the pipeline stores or replaces an images row
verifier_row_written(id, upload_url, downloaded_size_bytes, status) ==
    /\ verifier_db' = [verifier_db EXCEPT
           ![id] = VerifierRow(upload_url, downloaded_size_bytes, status, None)]
    /\ verify_run' = NoVerifyRun
    /\ UNCHANGED <<retryVars, batchVars, dbVars, checkerVars, duomiVars, processorVars, renameVars, updaterVars, tempVars, pollVars>>

InitVerifier ==
    /\ verifier_db = [id \in VerifierIds |-> NoRow]
    /\ verify_run = NoVerifyRun

NextVerifier ==
    \/ \E limit \in 0..1, ids \in SUBSET VerifierIds :
          \E download \in [ids -> DownloadResults] : verify_image_sizes(limit, download)
    \/ \E id \in VerifierIds, upload_url \in UploadUrls,
          downloaded_size_bytes \in {NULL} \cup (1..MaxSize), status \in {"success", "failed"} :
            verifier_row_written(id, upload_url, downloaded_size_bytes, status)

\* ------------------------------------------------- rename_images_with_uuid.py
MaxFiles == 2

\* the values generate_6char_id can return
SixCharIds == {"aaaaaa", "bbbbbb"}

Stems == {"photo"} \cup SixCharIds

ReadySuffixes == {".jpg", ".png", ".txt"}

image_extensions == {".jpg", ".png"}

FileNames == [stem : Stems, suffix : ReadySuffixes]

\* the image files the first loop collects
ImageFilesIn(dir) == {f \in FileNames : dir[f] # 0 /\ f.suffix \in image_extensions}

\* the orders in which iterdir can list the files of a set
Orders(files) ==
    {order \in [1..Cardinality(files) -> files] :
        \A f \in files : \E i \in DOMAIN order : order[i] = f}

\* the draws the while loop accepts: each new_id is not in used_ids
UniqueIds(n) ==
    {ids \in [1..n -> SixCharIds] : \A i, j \in 1..n : i # j => ids[i] # ids[j]}

\* where rename replaces an existing target, where it raises FileExistsError
Platforms == {"posix", "windows"}

\* old_path.rename(new_path) inside try/except
rename(dir, old_path, new_path, platform) ==
    IF dir[old_path] = 0
    THEN [dir |-> dir, renamed |-> FALSE]
    ELSE IF old_path = new_path
    THEN [dir |-> dir, renamed |-> TRUE]
    ELSE IF dir[new_path] # 0 /\ platform = "windows"
    THEN [dir |-> dir, renamed |-> FALSE]
    ELSE [dir |-> [[dir EXCEPT ![old_path] = 0] EXCEPT ![new_path] = dir[old_path]],
          renamed |-> TRUE]

RECURSIVE rename_loop(_, _, _, _, _)
\* the loop over image_files from position k
rename_loop(state, found, ids, platform, k) ==
    IF k > Len(found) THEN state
    ELSE LET old_path == found[k]
             new_path == [stem |-> ids[k], suffix |-> old_path.suffix]
             r == rename(state.dir, old_path, new_path, platform)
         IN  rename_loop([dir |-> r.dir,
                          renamed_count |-> state.renamed_count + (IF r.renamed THEN 1 ELSE 0)],
                         found, ids, platform, k + 1)

NoRenameRun == [kind |-> "none"]

rename_images_in_ready(found, ids, platform) ==
    /\ found \in Orders(ImageFilesIn(ready_dir))
    /\ found # <<>>
    /\ ids \in UniqueIds(Len(found))
    /\ LET end == rename_loop([dir |-> ready_dir, renamed_count |-> 0],
                              found, ids, platform, 1)
       IN  /\ ready_dir' = end.dir
           /\ rename_run' = [kind |-> "run", image_files |-> found,
                             renamed_count |-> end.renamed_count]
    /\ UNCHANGED <<retryVars, batchVars, dbVars, checkerVars, duomiVars, processorVars,
                   verifierVars, updaterVars, tempVars, pollVars>>

\* a new file is put into img/ready
ready_file_added(name, file) ==
    /\ ready_dir[name] = 0
    /\ \A f \in FileNames : ready_dir[f] # file
    /\ ready_dir' = [ready_dir EXCEPT ![name] = file]
    /\ rename_run' = NoRenameRun
    /\ UNCHANGED <<retryVars, batchVars, dbVars, checkerVars, duomiVars, processorVars,
                   verifierVars, updaterVars, tempVars, pollVars>>

InitRename ==
    /\ ready_dir = [f \in FileNames |-> 0]
    /\ rename_run = NoRenameRun

NextRename ==
    \/ \E found \in Orders(ImageFilesIn(ready_dir)) :
          \E ids \in UniqueIds(Len(found)), platform \in Platforms :
             rename_images_in_ready(found, ids, platform)
    \/ \E name \in FileNames, file \in 1..MaxFiles : ready_file_added(name, file)

\* ------------------------------------------------- update_existing_json.py
MaxStat == 2

UpdaterFiles == {"clip.json"}

InvalidContent == [kind |-> "invalid", video_prompt |-> None, image_url |-> FALSE,
                   new_fields |-> FALSE]

\* what open(file_path, 'w') leaves when json.dump raises
TruncatedContent == [kind |-> "truncated", video_prompt |-> None, image_url |-> FALSE,
                     new_fields |-> FALSE]

\* a JSON object: its video_prompt, whether it has image_url, whether it has all new fields
UpdaterJson(video_prompt, image_url, new_fields) ==
    [kind |-> "json", video_prompt |-> video_prompt, image_url |-> image_url,
     new_fields |-> new_fields]

VideoPrompts == {"p1", "p2"}

\* the contents other scripts leave in out/prompt_json
WrittenContents ==
    {InvalidContent} \cup
    {UpdaterJson(v, u, n) : v \in VideoPrompts \cup {None}, u \in BOOLEAN, n \in BOOLEAN}

needs_update(data) == ~data.new_fields

has_required_fields(data) == data.video_prompt # None /\ data.image_url

\* create_backup: shutil.copy2 of the file to a new backup file, or an exception caught
create_backup(files, file_path, copy_ok) ==
    IF copy_ok THEN files \cup {[file_path |-> file_path, content |-> json_dirs[file_path]]}
    ELSE files

\* an updater that goes on after a failed backup
update_without_backup(enabled, created) == FALSE

\* if self.backup and not self.create_backup(file_path): skip the update
backup_failed(enabled, created) == enabled /\ ~created

SaveOutcomes == {"saved", "open_failed", "dump_failed"}

\* with open(file_path, 'w') ... json.dump(data, f)
saved_content(data, save) ==
    CASE save = "saved" -> UpdaterJson(data.video_prompt, data.image_url, TRUE)
      [] save = "open_failed" -> data
      [] save = "dump_failed" -> TruncatedContent

count(field) == [stats EXCEPT ![field] = @ + 1]

NoUpdateRun == [kind |-> "none"]

UpdateRun(file_path, returned) ==
    [kind |-> "run", file_path |-> file_path, returned |-> returned]

update_json_file(file_path, copy_ok, save) ==
    /\ \A field \in DOMAIN stats : stats[field] < MaxStat
    /\ LET data == json_dirs[file_path]
       IN  IF data.kind # "json"
           THEN \* json.load raises
                /\ stats' = count("files_failed")
                /\ update_run' = UpdateRun(file_path, FALSE)
                /\ UNCHANGED <<json_dirs, backup_files>>
           ELSE IF ~needs_update(data)
           THEN /\ stats' = count("files_skipped")
                /\ update_run' = UpdateRun(file_path, TRUE)
                /\ UNCHANGED <<json_dirs, backup_files>>
           ELSE IF ~has_required_fields(data)
           THEN /\ stats' = count("files_failed")
                /\ update_run' = UpdateRun(file_path, FALSE)
                /\ UNCHANGED <<json_dirs, backup_files>>
           ELSE IF self_dry_run
           THEN /\ update_run' = UpdateRun(file_path, TRUE)
                /\ UNCHANGED <<stats, json_dirs, backup_files>>
           ELSE /\ backup_files' = IF self_backup THEN create_backup(backup_files, file_path, copy_ok)
                                   ELSE backup_files
                /\ IF backup_failed(self_backup, copy_ok)
                   THEN /\ stats' = count("files_failed")
                        /\ update_run' = UpdateRun(file_path, FALSE)
                        /\ UNCHANGED json_dirs
                   ELSE /\ json_dirs' = [json_dirs EXCEPT
                               ![file_path] = saved_content(data, save)]
                        /\ stats' = count(IF save = "saved" THEN "files_updated"
                                          ELSE "files_failed")
                        /\ update_run' = UpdateRun(file_path, save = "saved")
    /\ UNCHANGED <<self_dry_run, self_backup>>
    /\ UNCHANGED <<retryVars, batchVars, dbVars, checkerVars, duomiVars, processorVars,
                   verifierVars, renameVars, tempVars, pollVars>>

\* main: a new JSONUpdater from the command line's --dry-run and --backup
JSONUpdater(dry_run_arg, backup_arg) ==
    /\ self_dry_run' = dry_run_arg
    /\ self_backup' = backup_arg
    /\ stats' = [files_updated |-> 0, files_failed |-> 0, files_skipped |-> 0]
    /\ update_run' = NoUpdateRun
    /\ UNCHANGED <<json_dirs, backup_files>>
    /\ UNCHANGED <<retryVars, batchVars, dbVars, checkerVars, duomiVars, processorVars,
                   verifierVars, renameVars, tempVars, pollVars>>

\* another script writes a JSON file into out/prompt_json
updater_json_written(file_path, content) ==
    /\ json_dirs' = [json_dirs EXCEPT ![file_path] = content]
    /\ update_run' = NoUpdateRun
    /\ UNCHANGED <<self_dry_run, self_backup, stats, backup_files>>
    /\ UNCHANGED <<retryVars, batchVars, dbVars, checkerVars, duomiVars, processorVars,
                   verifierVars, renameVars, tempVars, pollVars>>

InitUpdater ==
    /\ self_dry_run = FALSE
    /\ self_backup = FALSE
    /\ stats = [files_updated |-> 0, files_failed |-> 0, files_skipped |-> 0]
    /\ json_dirs = [f \in UpdaterFiles |-> UpdaterJson("p1", TRUE, FALSE)]
    /\ backup_files = {}
    /\ update_run = NoUpdateRun

NextUpdater ==
    \/ \E file_path \in UpdaterFiles, copy_ok \in BOOLEAN, save \in SaveOutcomes :
            update_json_file(file_path, copy_ok, save)
    \/ \E dry_run_arg \in BOOLEAN, backup_arg \in BOOLEAN : JSONUpdater(dry_run_arg, backup_arg)
    \/ \E file_path \in UpdaterFiles, content \in WrittenContents :
            updater_json_written(file_path, content)

\* ------------------------------------------------- temp_process_generated_images.py
\* how far one call of upload_and_process_image gets
TempOutcomes ==
    {"file_not_found", "upload_failed", "prompts_failed", "download_failed",
     "json_save_failed", "processed"}

\* update_image_status when the UPDATE is lost
update_not_committed(table, image_id, status, committed) == table

\* TempImageProcessor.update_image_status: the UPDATE, or an exception that is only logged
try_update_image_status(table, image_id, status, committed) ==
    IF committed THEN [table EXCEPT ![image_id].status = status] ELSE table

NoTempResult == [kind |-> "none", call |-> 0]

\* the returned dictionary, with whether the last status update of the call
\* reached the database; call tells one call from the next
TempResult(success, image_id, committed) ==
    [kind |-> "result", success |-> success, image_id |-> image_id,
     committed |-> committed, call |-> 1 - tp_result.call]

\* one whole call of upload_and_process_image on a pending generated image;
\* uploaded_committed and final_committed say whether the 'uploaded' update
\* and the last update of the call reach the database
upload_and_process_image_call(image_id, outcome, uploaded_committed, final_committed) ==
    /\ tp_pc = "idle"
    /\ image_id \in Ids(images)
    /\ images[image_id].status = "pending"
    /\ images[image_id].origin_image_id # NULL
    /\ IF outcome \in {"file_not_found", "upload_failed"}
       THEN /\ images' = try_update_image_status(images, image_id, "failed", final_committed)
            /\ UNCHANGED <<prompts, videos>>
       ELSE LET uploaded == try_update_image_status(images, image_id, "uploaded",
                                                    uploaded_committed)
            IN  IF outcome = "prompts_failed"
                THEN /\ images' = try_update_image_status(uploaded, image_id, "failed",
                                                          final_committed)
                     /\ UNCHANGED <<prompts, videos>>
                ELSE /\ PromptRowAccepted(get_connection, PromptRow(image_id))
                     /\ Len(prompts) < MaxPrompts
                     /\ prompts' = Append(prompts, PromptRow(image_id))
                     /\ IF outcome \in {"download_failed", "json_save_failed"}
                        THEN /\ images' = try_update_image_status(uploaded, image_id, "failed",
                                                                  final_committed)
                             /\ UNCHANGED videos
                        ELSE /\ Len(videos) < MaxVideos
                             /\ videos' = Append(videos,
                                    VideoRow(image_id, Len(prompts) + 1, "pending"))
                             /\ images' = try_update_image_status(uploaded, image_id, "success",
                                                                  final_committed)
    /\ tp_result' = TempResult(outcome = "processed", image_id, final_committed)
    /\ UNCHANGED <<db_result, tpVars>>
    /\ UNCHANGED <<retryVars, batchVars, checkerVars, duomiVars, processorVars,
                   verifierVars, renameVars, updaterVars, pollVars>>

InitTemp == tp_result = NoTempResult

\* the scripts that fill the tables, then temp_process_generated_images.py
NextTemp ==
    \/ \E name \in ScriptPics, has_status_column \in BOOLEAN, text \in CsvStatusTexts :
            migrate_existing_data_csv_row(name, has_status_column, text)
    \/ \E image_id \in 1..MaxImages : insert_prompt_record(PromptRow(image_id))
    \/ \E origin_image_id \in 1..MaxImages : create_new_image_record(origin_image_id)
    \/ \E image_id \in 1..MaxImages, outcome \in TempOutcomes,
          uploaded_committed \in BOOLEAN, final_committed \in BOOLEAN :
            upload_and_process_image_call(image_id, outcome, uploaded_committed,
                                          final_committed)

\* ------------------- generate_video_duomi.py, generate_video_duomi_v2.py, generate_video_kling.py
MaxPollCount == 3

GenerationScripts == {"generate_video_duomi", "generate_video_duomi_v2", "generate_video_kling"}

\* what a status request can bring back
StatusAnswers ==
    {"request_error", "code_nonzero", "no_data", "processing", "succeed_without_url",
     "succeed_with_url", "failed", "canceled"}

\* the answers the service gives when the job has ended
FinalAnswers == {"succeed_with_url", "failed", "canceled"}

\* a loop that keeps polling after a canceled job
breaks_unless_canceled(script, answer) ==
    \/ answer \in {"request_error", "succeed_with_url", "failed"}
    \/ answer = "no_data" /\ script # "generate_video_duomi_v2"

\* the answers after which the iteration reaches a break: RequestException,
\* succeed with a URL (the download saved or raising), failed, canceled, and
\* a missing data/task_status where it is not checked and raises
breaks_loop(script, answer) ==
    \/ answer \in {"request_error", "succeed_with_url", "failed", "canceled"}
    \/ answer = "no_data" /\ script # "generate_video_duomi_v2"

\* main has submitted the job and enters while True
poll_start(script) ==
    /\ poll_pc = "idle"
    /\ poll_script' = script
    /\ poll_pc' = "polling"
    /\ status_data' = None
    /\ poll_count' = 0
    /\ generation_status' = "failure"
    /\ UNCHANGED <<retryVars, batchVars, dbVars, checkerVars, duomiVars, processorVars,
                   verifierVars, renameVars, updaterVars, tempVars>>

\* one iteration of while True up to its break or its time.sleep(10)
poll_iteration(answer, download_ok) ==
    /\ poll_pc = "polling"
    /\ status_data' = answer
    /\ poll_count' = IF poll_count < MaxPollCount THEN poll_count + 1 ELSE poll_count
    /\ poll_pc' = IF breaks_loop(poll_script, answer) THEN "done" ELSE "sleeping"
    /\ generation_status' = IF answer = "succeed_with_url" /\ download_ok THEN "success"
                            ELSE "failure"
    /\ UNCHANGED poll_script
    /\ UNCHANGED <<retryVars, batchVars, dbVars, checkerVars, duomiVars, processorVars,
                   verifierVars, renameVars, updaterVars, tempVars>>

\* time.sleep(10) returns and the loop polls again
poll_sleep ==
    /\ poll_pc = "sleeping"
    /\ poll_pc' = "polling"
    /\ UNCHANGED <<poll_script, status_data, poll_count, generation_status>>
    /\ UNCHANGED <<retryVars, batchVars, dbVars, checkerVars, duomiVars, processorVars,
                   verifierVars, renameVars, updaterVars, tempVars>>

\* the rest of main after the loop: the JSON file is saved and moved, the run logged
poll_main_returns ==
    /\ poll_pc = "done"
    /\ poll_pc' = "idle"
    /\ UNCHANGED <<poll_script, status_data, poll_count, generation_status>>
    /\ UNCHANGED <<retryVars, batchVars, dbVars, checkerVars, duomiVars, processorVars,
                   verifierVars, renameVars, updaterVars, tempVars>>

\* the status request is answered with the job's end
final_answer == \E answer \in FinalAnswers, download_ok \in BOOLEAN : poll_iteration(answer, download_ok)

InitPolling ==
    /\ poll_script = "generate_video_duomi"
    /\ poll_pc = "idle"
    /\ status_data = None
    /\ poll_count = 0
    /\ generation_status = "failure"

NextPolling ==
    \/ \E script \in GenerationScripts : poll_start(script)
    \/ \E answer \in StatusAnswers, download_ok \in BOOLEAN : poll_iteration(answer, download_ok)
    \/ poll_sleep
    \/ poll_main_returns

InitFiles ==
    /\ InitChecker /\ InitDuomi /\ InitProcessor /\ InitVerifier /\ InitRename
    /\ InitUpdater /\ InitTemp /\ InitPolling

InitRetry ==
    /\ pc = "idle"
    /\ routine = "none"
    /\ service = "freeimagehost"
    /\ image_path = [exists |-> TRUE, suffix |-> ".png"]
    /\ api_source = "openrouter"
    /\ use_fallback = FALSE
    /\ gemini_client = FALSE
    /\ max_retries = 3
    /\ retry_delay = 1
    /\ attempt = 0
    /\ last_error = None
    /\ calls = <<>>
    /\ sleeps = <<>>
    /\ result = NoResult

Init == InitRetry /\ InitBatch /\ InitDb /\ InitFiles

NextRetry ==
    \/ \E svc \in Services, n \in 0..MaxRetries, delay \in 1..MaxDelay,
          file_exists \in BOOLEAN, suffix \in Suffixes :
            upload_image(svc, n, delay, file_exists, suffix)
    \/ \E response \in FreeImageHostResponses \cup ImageKitResponses :
            upload_image_attempt(response)
    \/ \E via \in GenRoutines, src \in {"openrouter", "gemini"}, n \in 0..MaxRetries,
          delay \in 1..MaxDelay, fb \in BOOLEAN, client \in BOOLEAN :
            generate_content(via, src, n, delay, fb, client)
    \/ \E response \in OpenRouterResponses : generate_content_attempt(response)
    \/ \E response \in GeminiResponses : generate_content_fallback(response)
    \/ \E response \in GeminiResponses : generate_content_gemini(response)
    \/ \E n \in 0..MaxRetries, delay \in 1..MaxDelay, api_key \in BOOLEAN, image_opens \in BOOLEAN :
            remove_watermark_with_gemini(n, delay, api_key, image_opens)
    \/ \E response \in WatermarkResponses, jitter \in Jitters :
            remove_watermark_attempt(response, jitter)
    \/ Return_to_caller

SpecRetry == Init /\ [][NextRetry]_vars

SpecBatch == Init /\ [][NextBatch]_vars

SpecDbManager == Init /\ [][NextDbManager]_vars

SpecScripts == Init /\ [][NextScripts]_vars

SpecChecker == Init /\ [][NextChecker]_vars

SpecDuomi == Init /\ [][NextDuomi]_vars

SpecProcessor == Init /\ [][NextProcessor]_vars

SpecVerifier == Init /\ [][NextVerifier]_vars

SpecRename == Init /\ [][NextRename]_vars

SpecUpdater == Init /\ [][NextUpdater]_vars

SpecTemp == Init /\ [][NextTemp]_vars

SpecPolling == Init /\ [][NextPolling]_vars

\* the script keeps running (sleep returns, main goes on after the loop), and
\* the service answers some status request with the end of the job
SpecPollingFair ==
    /\ SpecPolling
    /\ WF_vars(poll_sleep)
    /\ WF_vars(poll_main_returns)
    /\ SF_vars(final_answer)

\* ================================================================ claims
Last(seq) == seq[Len(seq)]

AllFailed(seq) == \A i \in DOMAIN seq : ~seq[i].ok

CallsTo(api) == {i \in DOMAIN calls : calls[i].api = api}

\* C1: for an existing file with a valid image extension, upload_image calls
\* _upload_single at most max_retries times, makes no call after a successful
\* one and returns that call's successful result, and returns success=False
\* once max_retries calls have all failed (by a failed result or by raising).
C1_BoundedUploadRetry ==
    (routine = "upload_image" /\ image_path.exists /\ _is_valid_image(image_path.suffix)) =>
        /\ Len(calls) <= max_retries
        /\ \A i \in DOMAIN calls : i < Len(calls) => ~calls[i].ok
        /\ pc = "upload_loop" => (Len(calls) < max_retries /\ AllFailed(calls))
        /\ pc = "returned" =>
              /\ result.kind = "UploadResult"
              /\ result.success <=> (calls # <<>> /\ Last(calls).ok)
              /\ ~result.success => (Len(calls) = max_retries /\ AllFailed(calls))

C1_Witness ==
    /\ routine = "upload_image"
    /\ pc = "returned"
    /\ max_retries = 3
    /\ Len(calls) = 3
    /\ AllFailed(calls)
    /\ last_error = "FileNotFoundError"
    /\ ~result.success

\* C2: in generate_content the Gemini fallback is called at most once, only
\* after max_retries OpenRouter attempts that all failed, and only when
\* use_fallback is true and a Gemini client exists; content it produces is
\* returned with success=True and api_source "gemini_fallback", content
\* produced by OpenRouter with api_source "openrouter".
C2_FallbackAfterRetries ==
    routine \in GenRoutines =>
        /\ Cardinality(CallsTo("gemini_fallback")) <= 1
        /\ \A k \in CallsTo("gemini_fallback") :
              /\ use_fallback /\ gemini_client
              /\ Cardinality({i \in CallsTo("openrouter") : i < k}) = max_retries
              /\ \A i \in CallsTo("openrouter") : i < k /\ ~calls[i].ok
        /\ (pc = "returned" /\ calls # <<>> /\ Last(calls).ok /\ Last(calls).api = "gemini_fallback") =>
              result = GenerationResult(TRUE, "gemini text", None, "gemini_fallback")
        /\ (pc = "returned" /\ calls # <<>> /\ Last(calls).ok /\ Last(calls).api = "openrouter") =>
              result = GenerationResult(TRUE, "openrouter text", None, "openrouter")

C2_Witness ==
    /\ routine = "generate_content"
    /\ api_source = "openrouter"
    /\ pc = "returned"
    /\ max_retries = 2
    /\ Len(calls) = 3
    /\ result.success
    /\ result.api_source = "gemini_fallback"

\* C4: generate_content and analyze_image always hand a GenerationResult back
\* to the caller, whatever the providers answered, and a result with
\* success=False carries an error that is not None.
C4_FailureCarriesError ==
    (routine \in GenRoutines /\ pc = "returned") =>
        /\ result.kind = "GenerationResult"
        /\ ~result.success => result.error # None

C4_Witness ==
    /\ routine = "analyze_image"
    /\ pc = "returned"
    /\ ~result.success
    /\ last_error = None
    /\ Len(calls) = max_retries
    /\ max_retries >= 1

LoopCalls ==
    IF routine = "upload_image" THEN DOMAIN calls
    ELSE IF routine \in GenRoutines THEN CallsTo("openrouter")
    ELSE CallsTo("gemini_image")

\* C5 as stated: in all three retry loops the attempts are bounded by
\* max_retries and every wait between attempts is the same fixed delay.
C5_Original_FixedDelayEverywhere ==
    /\ Cardinality(LoopCalls) <= max_retries
    /\ \A i, j \in DOMAIN sleeps : sleeps[i] = sleeps[j]

\* C5 amended: the attempts are bounded by max_retries in all three loops;
\* upload_image and generate_content wait the fixed retry_delay between
\* attempts, while remove_watermark_with_gemini waits
\* retry_delay * 2^attempt * jitter with jitter in [0.5, 1.5].
C5_BoundedRetryWaits ==
    /\ Cardinality(LoopCalls) <= max_retries
    /\ Len(sleeps) <= Cardinality(LoopCalls)
    /\ routine \in {"upload_image"} \cup GenRoutines =>
          \A i \in DOMAIN sleeps : sleeps[i] = 2 * retry_delay
    /\ routine = "remove_watermark_with_gemini" =>
          \A i \in DOMAIN sleeps :
              /\ sleeps[i] >= retry_delay * Pow2(i - 1)
              /\ sleeps[i] <= 3 * retry_delay * Pow2(i - 1)

C5_Witness ==
    /\ routine = "remove_watermark_with_gemini"
    /\ pc = "returned"
    /\ max_retries = 3
    /\ Len(sleeps) = 2
    /\ sleeps[2] > sleeps[1]

\* C10: every UploadResult with success=True returned by upload_image carries
\* the hosted image's URL in url and has no error set.
C10_SuccessHasUrlNoError ==
    (routine = "upload_image" /\ pc = "returned" /\ result.success) =>
        /\ result.url = HostedUrl
        /\ result.error = None

HasSuccessRow(csv, f) ==
    \E i \in DOMAIN csv : csv[i].local_filename = f /\ csv[i].upload_status = "success"

C7_ForeignKeysHold ==
    /\ \A i \in Ids(prompts) : prompts[i].image_id \in Ids(images)
    /\ \A i \in Ids(videos) : videos[i].image_id \in Ids(images)
    /\ (db_result.op \in {"insert_prompt_record", "insert_video_record"}
            /\ db_result.image_id \notin Ids(images))
          => db_result.kind = "IntegrityError"

C7_Witness ==
    /\ db_result.op = "insert_prompt_record"
    /\ db_result.kind = "IntegrityError"
    /\ db_result.image_id = 2
    /\ Len(images) = 1
    /\ Len(prompts) = 1

\* C8: get_image_by_filename returns the ImageRecord of the images row whose
\* original_filename equals the argument when there is one, and None when
\* there is none; it does not fail for an existing row.
C8_LookupReturnsRecord ==
    db_result.op = "get_image_by_filename" =>
        IF \E i \in Ids(images) : images[i].original_filename = db_result.filename
        THEN /\ db_result.record.kind = "ImageRecord"
             /\ db_result.record.original_filename = db_result.filename
        ELSE db_result.record.kind = "None"

\* C3 as stated: the status of every images row is always one of pending,
\* uploading, success, failed or completed.
C3_Original_ImageStatusSet ==
    \A i \in Ids(images) :
        images[i].status \in {"pending", "uploading", "success", "failed", "completed"}

\* C3 amended: the status of every images row is always one of pending,
\* uploaded, success, failed, completed, legacy or unknown; no script writes
\* uploading.
C3_ImageStatusSet ==
    \A i \in Ids(images) :
        images[i].status \in
            {"pending", "uploaded", "success", "failed", "completed", "legacy", "unknown"}

C3_Witness ==
    /\ tp_pc = "prompts"
    /\ images[tp_image_id].status = "uploaded"
    /\ images[images[tp_image_id].origin_image_id].status = "success"

\* C6: every status the conversion and processing scripts write to a videos
\* row is one of pending, generating, completed or failed.
C6_VideoStatusSet ==
    \A i \in Ids(videos) :
        videos[i].status \in {"pending", "generating", "completed", "failed"}

C6_Witness ==
    /\ Len(videos) = 1
    /\ videos[1].status = "completed"
    /\ images[videos[1].image_id].status = "legacy"

\* the provider a call went to
Provider(api) == IF api = "openrouter" THEN "openrouter" ELSE "gemini"

\* C11: with use_fallback enabled, generate_content calls the other provider
\* only right after a call of the first provider that raised a 503 error.
C11_SwitchOnlyOn503 ==
    (routine \in GenRoutines /\ use_fallback) =>
        \A k \in DOMAIN calls :
            (k > 1 /\ Provider(calls[k].api) # Provider(calls[k - 1].api)) =>
                Has503(calls[k - 1].exc)

C13_ImageMovedAfterSubmission ==
    [][(dv_pc = "polling" /\ dv_pc' = "idle" /\ dv_run.pic_name \in IMG_READY_DIR) =>
          /\ dv_run.pic_name \notin IMG_READY_DIR'
          /\ dv_run.pic_name \in IMG_GENERATED_DIR']_vars

\* C14 as stated: without a JSON path argument, main runs test_gemini_vision.py
\* only if no JSON file in out/prompt_json names an image present in img/ready.
C14_Original_VisionOnlyWithoutPair ==
    [][(dv_pc = "idle" /\ dv_run'.ran_vision) =>
          ~\E f \in Present(JSON_PROMPT_DIR) :
                /\ JSON_PROMPT_DIR[f].kind = "json"
                /\ JSON_PROMPT_DIR[f].pic_name \in IMG_READY_DIR]_vars

\* C14 amended: without a JSON path argument, main runs test_gemini_vision.py
\* only if no JSON file in out/prompt_json, other than those whose name starts
\* with error_message, names an image present in img/ready; when such a file
\* exists main uses it and writes no new JSON file.
C14_VisionOnlyWithoutUsablePair ==
    [][(dv_pc = "idle" /\ dv_run' # NoRun /\ dv_run'.json_arg = None) =>
          LET usable == {f \in Present(JSON_PROMPT_DIR) :
                            /\ ~IsErrorMessage(f)
                            /\ JSON_PROMPT_DIR[f].kind = "json"
                            /\ JSON_PROMPT_DIR[f].pic_name \in IMG_READY_DIR}
          IN  /\ dv_run'.ran_vision => usable = {}
              /\ (usable # {} /\ dv_run'.json_file_path # None) =>
                    /\ dv_run'.json_file_path \in usable
                    /\ JSON_PROMPT_DIR' = JSON_PROMPT_DIR]_vars

\* a run that found a usable pair and submitted it without running the
\* vision script, while an Error_message file names the same image
C14_Witness ==
    /\ dv_pc = "polling"
    /\ dv_run.json_arg = None
    /\ ~dv_run.ran_vision
    /\ dv_run.json_file_path = "clip.json"
    /\ dv_run.pic_name = "p1.jpg"
    /\ IMG_READY_DIR = {"p1.jpg"}
    /\ JSON_PROMPT_DIR["Error_message.json"].pic_name = "p1.jpg"

\* a run that ran the vision script and took the JSON file it wrote
C14_WitnessVision ==
    /\ dv_pc = "polling"
    /\ dv_run.ran_vision
    /\ dv_run.json_file_path = "clip.json"

\* C15: every call of process_single_image that does not skip the image as
\* already processed appends a row for that image to logs/image_uploading.csv,
\* with status success or failed as the call's result says.
C15_EveryAttemptLogged ==
    [][(ps_result' # ps_result /\ ps_result'.error # "Already processed - skipped") =>
          csv_log_path' = Append(csv_log_path,
              [original_filename |-> ps_result'.original_filename,
               status |-> IF ps_result'.success THEN "success" ELSE "failed"])]_vars

\* C16: a call of verify_image_sizes without a limit checks every images row
\* whose upload_url is neither NULL nor empty.
C16_ChecksEveryRowWithUrl ==
    [][(verify_run' # NoVerifyRun /\ verify_run'.limit = 0) =>
          verify_run'.checked =
              {id \in VerifierIds : /\ verifier_db[id].kind = "row"
                                    /\ verifier_db[id].upload_url # None
                                    /\ verifier_db[id].upload_url # ""}]_vars

\* C17: for every checked image whose download succeeds, verify_image_sizes
\* stores the actual size with status 'success' when no downloaded size was
\* recorded, stores status 'failed' with error_message 'size not match' when
\* the recorded size differs from the actual size, and leaves the row as it
\* was when the two sizes are equal.
C17_VerifiedRowUpdates ==
    [][verify_run' # NoVerifyRun =>
          \A id \in verify_run'.checked :
              LET d == verify_run'.download[id]
                  old == verifier_db[id]
                  new == verifier_db'[id]
              IN  d.success =>
                    /\ old.downloaded_size_bytes = NULL =>
                          /\ new.downloaded_size_bytes = d.actual_size
                          /\ new.status = "success"
                    /\ (old.downloaded_size_bytes # NULL
                           /\ old.downloaded_size_bytes # d.actual_size) =>
                          /\ new.status = "failed"
                          /\ new.error_message = "size not match"
                    /\ old.downloaded_size_bytes = d.actual_size => new = old]_vars

\* a run has checked three kinds of row with successful downloads: 651 had no
\* recorded size, 652 had a different one
C17_Witness ==
    /\ verify_run # NoVerifyRun
    /\ verify_run.checked = {651, 652}
    /\ verify_run.download[651].success /\ verify_run.download[652].success
    /\ verifier_db[651].status = "success"
    /\ verifier_db[651].downloaded_size_bytes = verify_run.download[651].actual_size
    /\ verifier_db[652].status = "failed"
    /\ verifier_db[652].error_message = "size not match"

\* C18: a run of rename_images_in_ready leaves every image file of img/ready
\* in the directory under a name with its original extension, overwrites no
\* file, and so leaves the number of image files as it was.
C18_RenameKeepsEveryFile ==
    [][rename_run' # NoRenameRun =>
          /\ \A f \in FileNames : ready_dir[f] # 0 =>
                \E g \in FileNames : ready_dir'[g] = ready_dir[f] /\ g.suffix = f.suffix
          /\ Cardinality(ImageFilesIn(ready_dir')) = Cardinality(ImageFilesIn(ready_dir))]_vars

\* C19: with backup enabled, a call of update_json_file changes a JSON file
\* only when a backup copy holding the file's content before the call exists
\* after it, and a call whose backup could not be created leaves the file as it was.
C19_WriteOnlyAfterBackup ==
    [][(update_run' # NoUpdateRun /\ self_backup) =>
          \A f \in UpdaterFiles :
              json_dirs'[f] # json_dirs[f] =>
                  /\ f = update_run'.file_path
                  /\ [file_path |-> f, content |-> json_dirs[f]] \in backup_files']_vars

\* an update with backup enabled has rewritten clip.json, and the backup holds
\* the content the file had before
C19_Witness ==
    /\ self_backup /\ ~self_dry_run
    /\ update_run # NoUpdateRun
    /\ update_run.returned
    /\ stats.files_updated = 1
    /\ json_dirs["clip.json"] = UpdaterJson("p2", TRUE, TRUE)
    /\ [file_path |-> "clip.json", content |-> UpdaterJson("p2", TRUE, FALSE)] \in backup_files

C21_PollingTerminates == (poll_pc \in {"polling", "sleeping"}) ~> (poll_pc = "done")

\* generate_video_kling has left its loop after polling more than once, on a
\* succeed answer with a video URL
C21_Witness ==
    /\ poll_pc = "done"
    /\ poll_script = "generate_video_kling"
    /\ poll_count >= 2
    /\ status_data = "succeed_with_url"
    /\ generation_status = "success"

\* C22: a videos row whose status is completed or failed is never set back
\* to pending by a step of a conversion script.
C22_FinishedVideoStaysFinished ==
    [][\A i \in Ids(videos) :
          videos[i].status \in {"completed", "failed"} =>
              (i \in Ids(videos') /\ videos'[i].status # "pending")]_vars

====
